---- MODULE Spec2Model ----
(***************************************************************************)
(* Model of the propulsion design toolbox: Propulsion (engine performance), *)
(* Stage (masses, burn time, delta-v), Mission (requirement predicates),    *)
(* LaunchVehicle (mass stacking) and the driver (evaluate_stage_mission,    *)
(* vectorized_sweep).                                                       *)
(*                                                                          *)
(* Numbers.  A Python/numpy number is a record [k, n, d]:                   *)
(*   k = "num"  the rational n/d in lowest terms, d > 0                     *)
(*   k = "inf"  a numpy infinity of sign n                                  *)
(*   k = "nan"  numpy not-a-number                                          *)
(*   k = "None" Python's None                                               *)
(* Objects carry their class name in k, so that "is None" reads one field.  *)
(* Arithmetic is exact on rationals; division by zero raises                *)
(* ZeroDivisionError on Python numbers and yields inf/nan on numpy scalars. *)
(*                                                                          *)
(* Results.  The outcome of a call is a record [t, e, msg, v]: t = "ok"     *)
(* with the returned value v, or t = "raise" with the exception class e and *)
(* its message msg.                                                         *)
(***************************************************************************)
EXTENDS Integers, Sequences, FiniteSets, TLC

VARIABLES
    stages,     \* LaunchVehicle.stages: the Stage objects, bottom -> top
    orig,       \* the stages as handed to LaunchVehicle.__init__
    calls,      \* number of stack_stages() calls made so far
    engine,     \* a Propulsion object (engine / engine_template)
    stage,      \* a Stage object (stage / stage_template)
    mission,    \* a Mission object
    args,       \* the remaining arguments of the call under study
    op,         \* the last operation called ("init" before any call)
    ret         \* its outcome

vars == <<stages, orig, calls, engine, stage, mission, args, op, ret>>

(***************************************************************************)
(* Bounds of the model                                                      *)
(***************************************************************************)
\* stages per vehicle
MaxStages == 3
\* propellant / dry / payload masses drawn from 0..MaxMass
MaxMass == 2
\* stack_stages() calls per vehicle
MaxCalls == 2
\* mass flow rates drawn up to MaxMdot
MaxMdot == 2
\* exit velocities drawn up to MaxVe
MaxVe == 2
\* efficiencies drawn from 1/EtaDen .. EtaDen/EtaDen
EtaDen == 2
\* exit pressures drawn up to MaxPressure
MaxPressure == 2
\* required delta-v drawn from 0..MaxDv
MaxDv == 1

(***************************************************************************)
(* Numbers                                                                  *)
(***************************************************************************)
None == [k |-> "None", n |-> 0, d |-> 1]
NaN == [k |-> "nan", n |-> 0, d |-> 1]

Abs(x) == IF x < 0 THEN -x ELSE x

Sign(x) == IF x < 0 THEN -1 ELSE IF x > 0 THEN 1 ELSE 0

RECURSIVE GCD(_, _)
GCD(a, b) == IF b = 0 THEN a ELSE GCD(b, a % b)

Inf(s) == [k |-> "inf", n |-> s, d |-> 1]

\* the rational n/d (d # 0) in lowest terms
Num(n, d) ==
    LET g == GCD(Abs(n), Abs(d))
    IN  [k |-> "num", n |-> Sign(d) * (n \div g), d |-> Abs(d) \div g]

Int2Num(i) == Num(i, 1)

IsNone(x) == x.k = "None"

IsNaN(x) == x.k = "nan"

IsNum(x) == x.k = "num"

Ok(v) == [t |-> "ok", e |-> "", msg |-> "", v |-> v]

Raise(e, msg) == [t |-> "raise", e |-> e, msg |-> msg, v |-> None]

IsOk(r) == r.t = "ok"

\* a + b on finite numbers
Add(a, b) == Num(a.n * b.d + b.n * a.d, a.d * b.d)

Neg(a) == [a EXCEPT !.n = -a.n]

Sub(a, b) == Add(a, Neg(b))

\* a * b, IEEE rules for inf and nan
Mul(a, b) ==
    IF IsNaN(a) \/ IsNaN(b) THEN NaN
    ELSE IF a.k = "inf" \/ b.k = "inf"
         THEN IF Sign(a.n) * Sign(b.n) = 0 THEN NaN
              ELSE Inf(Sign(a.n) * Sign(b.n))
    ELSE LET g1 == GCD(Abs(a.n), b.d)
             g2 == GCD(Abs(b.n), a.d)
         IN  Num((a.n \div g1) * (b.n \div g2), (a.d \div g2) * (b.d \div g1))

\* a / b on numpy scalars: never raises, x/0 is inf or nan
NpDiv(a, b) ==
    IF IsNaN(a) \/ IsNaN(b) THEN NaN
    ELSE IF b.k = "inf" THEN (IF a.k = "inf" THEN NaN ELSE Int2Num(0))
    ELSE IF b.n = 0
         THEN IF a.n = 0 THEN NaN ELSE Inf(Sign(a.n))
    ELSE IF a.k = "inf" THEN Inf(Sign(a.n) * Sign(b.n))
    ELSE Mul(a, Num(b.d, b.n))

\* a / b: np tells whether an operand is a numpy scalar
Div(a, b, np) ==
    IF np THEN Ok(NpDiv(a, b))
    ELSE IF b.n = 0 THEN Raise("ZeroDivisionError", "division by zero")
    ELSE Ok(Mul(a, Num(b.d, b.n)))

\* a < b; every comparison with nan is False
Less(a, b) ==
    IF IsNaN(a) \/ IsNaN(b) THEN FALSE
    ELSE IF a.k = "inf" /\ b.k = "inf" THEN a.n < b.n
    ELSE IF a.k = "inf" THEN a.n < 0
    ELSE IF b.k = "inf" THEN b.n > 0
    ELSE a.n * b.d < b.n * a.d

\* a <= b
Leq(a, b) == ~IsNaN(a) /\ ~IsNaN(b) /\ ~Less(b, a)

\* a >= b
Geq(a, b) == Leq(b, a)

\* math.log(m0 / mf) on Python numbers.  The value is the artanh series of
\* the logarithm cut after its cubic term, 2y + 2y^3/3 with
\* y = (m0 - mf)/(m0 + mf): zero at ratio 1, signed and ordered as the logarithm.
LogRatio(m0, mf) ==
    IF mf.n = 0 THEN Raise("ZeroDivisionError", "division by zero")
    ELSE IF Sign(m0.n) * Sign(mf.n) <= 0 THEN Raise("ValueError", "math domain error")
    ELSE LET y == Mul(Sub(m0, mf), Num(Add(m0, mf).d, Add(m0, mf).n))
             y3 == Mul(y, Mul(y, y))
         IN  Ok(Add(Mul(Int2Num(2), y), Mul(Num(2, 3), y3)))

G0 == Num(980665, 100000)

(***************************************************************************)
(* Propulsion.py                                                            *)
(***************************************************************************)
\* Propulsion.__init__; np: the number fields are numpy scalars
Propulsion(mdot, ve, eta, p_e, p_a, A_e, np) ==
    [k |-> "Propulsion", mdot |-> mdot, ve |-> ve, eta |-> eta, p_e |-> p_e,
     p_a |-> p_a, A_e |-> A_e, np |-> np]

RECURSIVE JoinNames(_)
JoinNames(names) ==
    IF Len(names) = 1 THEN names[1]
    ELSE names[1] \o ", " \o JoinNames(Tail(names))

\* Require looking at its last keyword only
RequireLast(kwargs) ==
    IF IsNone(kwargs[Len(kwargs)][2])
    THEN Raise("ValueError", "Missing required parameter(s): " \o kwargs[Len(kwargs)][1])
    ELSE Ok(None)

\* Propulsion._require: kwargs is the sequence of <<name, value>> pairs
Require(kwargs) ==
    LET IsMissing(kw) == IsNone(kw[2])
        missing == SelectSeq(kwargs, IsMissing)
        names == [i \in 1..Len(missing) |-> missing[i][1]]
    IN  IF Len(missing) > 0
        THEN Raise("ValueError", "Missing required parameter(s): " \o JoinNames(names))
        ELSE Ok(None)

\* Propulsion.momentum_thrust
MomentumThrust(e) ==
    LET req == Require(<< <<"mdot", e.mdot>>, <<"ve", e.ve>> >>)
    IN  IF ~IsOk(req) THEN req ELSE Ok(Mul(e.mdot, e.ve))

\* Propulsion.pressure_thrust
PressureThrust(e) ==
    IF IsNone(e.p_e) \/ IsNone(e.A_e) THEN Ok(Int2Num(0))
    ELSE Ok(Mul(Sub(e.p_e, e.p_a), e.A_e))

\* TotalThrust with the efficiency applied to the pressure term only
TotalThrustEtaOnPressure(e) ==
    LET req == Require(<< <<"mdot", e.mdot>>, <<"ve", e.ve>> >>)
    IN  IF ~IsOk(req) THEN req
        ELSE Ok(Add(MomentumThrust(e).v, Mul(e.eta, PressureThrust(e).v)))

\* Propulsion.total_thrust
TotalThrust(e) ==
    LET req == Require(<< <<"mdot", e.mdot>>, <<"ve", e.ve>> >>)
    IN  IF ~IsOk(req) THEN req
        ELSE Ok(Mul(e.eta, Add(MomentumThrust(e).v, PressureThrust(e).v)))

\* Propulsion.specific_impulse
SpecificImpulse(e) ==
    LET req == Require(<< <<"mdot", e.mdot>> >>)
        T == TotalThrust(e)
    IN  IF ~IsOk(req) THEN req
        ELSE IF ~IsOk(T) THEN T
        ELSE Div(T.v, Mul(e.mdot, G0), e.np)

\* Propulsion.effective_exhaust_velocity
EffectiveExhaustVelocity(e) ==
    LET req == Require(<< <<"mdot", e.mdot>> >>)
        T == TotalThrust(e)
    IN  IF ~IsOk(req) THEN req
        ELSE IF ~IsOk(T) THEN T
        ELSE Div(T.v, e.mdot, e.np)

(***************************************************************************)
(* Stage.py                                                                 *)
(***************************************************************************)
\* Stage.__init__
Stage(eng, propellant_mass, dry_mass, payload_mass) ==
    [k |-> "Stage", engine |-> eng, m_prop |-> propellant_mass,
     m_dry |-> dry_mass, m_payload |-> payload_mass]

\* Stage.initial_mass
InitialMass(s) == Add(Add(s.m_prop, s.m_dry), s.m_payload)

\* Stage.final_mass
FinalMass(s) == Add(s.m_dry, s.m_payload)

\* Stage.burn_time
BurnTime(s) ==
    IF IsNone(s.engine)
    THEN Raise("AttributeError", "'NoneType' object has no attribute 'mdot'")
    ELSE IF IsNone(s.engine.mdot) \/ Leq(s.engine.mdot, Int2Num(0))
    THEN Raise("ValueError", "Engine mass flow rate (mdot) must be defined and positive.")
    ELSE Div(s.m_prop, s.engine.mdot, s.engine.np)

\* Stage.thrust_to_weight
ThrustToWeight(s, g0) ==
    IF IsNone(s.engine)
    THEN Raise("AttributeError", "'NoneType' object has no attribute 'total_thrust'")
    ELSE LET T == TotalThrust(s.engine)
             m0 == InitialMass(s)
         IN  IF ~IsOk(T) THEN T
             ELSE IF Leq(m0, Int2Num(0))
             THEN Raise("ValueError", "Stage initial mass must be positive.")
             ELSE Div(T.v, Mul(m0, g0), s.engine.np)

\* Stage.delta_v
DeltaV(s) ==
    IF IsNone(s.engine) THEN Raise("ValueError", "Stage has no engine.")
    ELSE LET isp == SpecificImpulse(s.engine)
             lg == LogRatio(InitialMass(s), FinalMass(s))
         IN  IF ~IsOk(isp) THEN isp
             ELSE IF ~IsOk(lg) THEN lg
             ELSE Ok(Mul(Mul(G0, isp.v), lg.v))

(***************************************************************************)
(* Mission.py                                                               *)
(***************************************************************************)
\* Mission.__init__
Mission(delta_v_required, min_thrust_to_weight, max_burn_time, gravity_loss, margin) ==
    [k |-> "Mission", delta_v_required |-> delta_v_required,
     min_tw |-> min_thrust_to_weight, max_burn_time |-> max_burn_time,
     gravity_loss |-> gravity_loss, margin |-> margin]

\* Mission.total_delta_v_required
TotalDeltaVRequired(m) ==
    Mul(Add(m.delta_v_required, m.gravity_loss), Add(Int2Num(1), m.margin))

\* AchievedDeltaV with the guard m0 < mf in place of m0 <= mf
AchievedDeltaVStrictGuard(m, isp, m0, mf) ==
    IF Less(m0, mf) THEN Raise("ValueError", "Initial mass must exceed final mass.")
    ELSE LET lg == LogRatio(m0, mf)
         IN  IF ~IsOk(lg) THEN lg ELSE Ok(Mul(Mul(G0, isp), lg.v))

\* Mission.achieved_delta_v
AchievedDeltaV(m, isp, m0, mf) ==
    IF Leq(m0, mf) THEN Raise("ValueError", "Initial mass must exceed final mass.")
    ELSE LET lg == LogRatio(m0, mf)
         IN  IF ~IsOk(lg) THEN lg ELSE Ok(Mul(Mul(G0, isp), lg.v))

\* Mission.delta_v_satisfied
DeltaVSatisfied(m, isp, m0, mf) ==
    LET dv_achieved == AchievedDeltaV(m, isp, m0, mf)
    IN  IF ~IsOk(dv_achieved) THEN dv_achieved
        ELSE Ok(Geq(dv_achieved.v, TotalDeltaVRequired(m)))

\* Mission.thrust_to_weight_satisfied
ThrustToWeightSatisfied(m, thrust, mass) ==
    IF Leq(m.min_tw, Int2Num(0)) THEN Ok(TRUE)
    ELSE LET q == Div(thrust, Mul(mass, G0), FALSE)
         IN  IF ~IsOk(q) THEN q ELSE Ok(Geq(q.v, m.min_tw))

\* Mission.burn_time_satisfied
BurnTimeSatisfied(m, burn_time) ==
    IF IsNone(m.max_burn_time) THEN Ok(TRUE)
    ELSE Ok(Leq(burn_time, m.max_burn_time))

(***************************************************************************)
(* LaunchVehicle.py                                                         *)
(***************************************************************************)
RECURSIVE SumInitialMass(_, _)
\* sum(s.m_prop + s.m_dry + s.m_payload for s in stages[i+1:]); ss[j..] here
SumInitialMass(ss, j) ==
    IF j > Len(ss) THEN Int2Num(0)
    ELSE Add(InitialMass(ss[j]), SumInitialMass(ss, j + 1))

\* StackOne with the target index off by one: writes the stage above
StackOneAbove(ss, i) ==
    [ss EXCEPT ![i + 1].m_payload = Add(ss[i].m_payload, SumInitialMass(ss, i + 1))]

\* one iteration of the loop of stack_stages, at the stage of position i
StackOne(ss, i) ==
    [ss EXCEPT ![i].m_payload = Add(ss[i].m_payload, SumInitialMass(ss, i + 1))]

RECURSIVE StackFrom(_, _)
\* the loop of stack_stages from position i down to the bottom stage
StackFrom(ss, i) ==
    IF i < 1 THEN ss ELSE StackFrom(StackOne(ss, i), i - 1)

\* LaunchVehicle.stack_stages: range(len-2, -1, -1), positions counted from 1
StackStagesOf(ss) == StackFrom(ss, Len(ss) - 1)

\* LaunchVehicle.total_initial_mass
TotalInitialMass(ss) == InitialMass(ss[1])

(***************************************************************************)
(* driver.py                                                                *)
(***************************************************************************)
\* what "except ValueError" catches
IsValueError(r) == r.t = "raise" /\ r.e = "ValueError"

\* the try block of vectorized_sweep for the cell's engine e: the cell's dv,
\* tw and burn_time, or the exception of the first statement that raises
SweepTry(e, stage_template, m) ==
    LET m0 == InitialMass(stage_template)
        mf == FinalMass(stage_template)
        thrust == TotalThrust(e)
        isp == SpecificImpulse(e)
        burn_time == Div(stage_template.m_prop, e.mdot, TRUE)
        dv == AchievedDeltaV(m, isp.v, m0, mf)
        tw == Div(thrust.v, Mul(m0, G0), TRUE)
    IN  IF ~IsOk(thrust) THEN thrust
        ELSE IF ~IsOk(isp) THEN isp
        ELSE IF ~IsOk(burn_time) THEN burn_time
        ELSE IF ~IsOk(dv) THEN dv
        ELSE IF ~IsOk(tw) THEN tw
        ELSE Ok([dv |-> dv.v, tw |-> tw.v, burn_time |-> burn_time.v])

\* SweepVerdict with the burn-time test burn_time >= max_burn_time
SweepVerdictBurnGeq(m, try) ==
    LET caught == IsValueError(try)
        dv == IF caught THEN NaN ELSE try.v.dv
        tw == IF caught THEN NaN ELSE try.v.tw
        burn_time == IF caught THEN NaN ELSE try.v.burn_time
        feasible ==
            /\ ~(IsNaN(dv) \/ Less(dv, TotalDeltaVRequired(m)))
            /\ ~(IsNaN(tw) \/ Less(tw, m.min_tw))
            /\ ~(/\ ~IsNone(m.max_burn_time)
                 /\ (IsNaN(burn_time) \/ Leq(m.max_burn_time, burn_time)))
    IN  IF ~IsOk(try) /\ ~caught THEN try
        ELSE Ok([dv |-> dv, tw |-> tw, burn_time |-> burn_time,
                 feasible |-> feasible])

\* the except clause, the saved metrics and the feasibility check of
\* vectorized_sweep, for the outcome try of the try block
SweepVerdict(m, try) ==
    LET caught == IsValueError(try)
        dv == IF caught THEN NaN ELSE try.v.dv
        tw == IF caught THEN NaN ELSE try.v.tw
        burn_time == IF caught THEN NaN ELSE try.v.burn_time
        feasible ==
            /\ ~(IsNaN(dv) \/ Less(dv, TotalDeltaVRequired(m)))
            /\ ~(IsNaN(tw) \/ Less(tw, m.min_tw))
            /\ ~(/\ ~IsNone(m.max_burn_time)
                 /\ (IsNaN(burn_time) \/ Less(m.max_burn_time, burn_time)))
    IN  IF ~IsOk(try) /\ ~caught THEN try
        ELSE Ok([dv |-> dv, tw |-> tw, burn_time |-> burn_time,
                 feasible |-> feasible])

\* the body of the two loops of vectorized_sweep for one cell (ve, mdot):
\* the cell's dv, tw, burn_time and feasible, or the exception that escapes.
\* (CHOOSE over a one-element set: the try block is evaluated once.)
SweepCell(engine_template, stage_template, m, ve, mdot) ==
    CHOOSE r \in
        {SweepVerdict(m, try) : try \in
            {SweepTry(Propulsion(mdot, ve, engine_template.eta, engine_template.p_e,
                                 engine_template.p_a, engine_template.A_e, TRUE),
                      stage_template, m)}} : TRUE

RECURSIVE SweepCells(_, _, _, _, _, _)
\* the two loops of vectorized_sweep from the k-th cell on, row by row: the
\* cells' results in loop order, ending at the first one that raises
SweepCells(engine_template, stage_template, m, ve_range, mdot_range, k) ==
    IF k > Len(ve_range) * Len(mdot_range) THEN <<>>
    ELSE LET i == ((k - 1) \div Len(mdot_range)) + 1
             j == ((k - 1) % Len(mdot_range)) + 1
             c == SweepCell(engine_template, stage_template, m,
                            ve_range[i], mdot_range[j])
         IN  IF ~IsOk(c) THEN <<c>>
             ELSE <<c>> \o SweepCells(engine_template, stage_template, m,
                                      ve_range, mdot_range, k + 1)

\* the value vectorized_sweep returns for the cells' results: the grids
\* indexed by <<i, j>>, or the exception that escaped from the last cell run
SweepGrids(ve_range, mdot_range, cells) ==
    LET I == (1..Len(ve_range)) \X (1..Len(mdot_range))
        At(c) == cells[(c[1] - 1) * Len(mdot_range) + c[2]].v
    IN  IF ~IsOk(cells[Len(cells)]) THEN cells[Len(cells)]
        ELSE Ok([ve |-> [c \in I |-> ve_range[c[1]]],
                 mdot |-> [c \in I |-> mdot_range[c[2]]],
                 dv |-> [c \in I |-> At(c).dv],
                 tw |-> [c \in I |-> At(c).tw],
                 burn_time |-> [c \in I |-> At(c).burn_time],
                 feasible |-> [c \in I |-> At(c).feasible]])

\* vectorized_sweep
VectorizedSweep(engine_template, stage_template, m, ve_range, mdot_range) ==
    CHOOSE r \in
        {SweepGrids(ve_range, mdot_range, cells) : cells \in
            {SweepCells(engine_template, stage_template, m,
                        ve_range, mdot_range, 1)}} : TRUE

\* evaluate_stage_mission
EvaluateStageMission(eng, s, m) ==
    LET m0 == InitialMass(s)
        mf == FinalMass(s)
        bt == BurnTime(s)
        burn_time == IF IsValueError(bt) THEN Ok(None) ELSE bt
        T == TotalThrust(eng)
        I == SpecificImpulse(eng)
        perf == IF ~IsOk(T) THEN T ELSE I
        thrust == IF IsValueError(perf) THEN None ELSE T.v
        isp == IF IsValueError(perf) THEN None ELSE I.v
        dv == IF IsNone(isp) THEN Ok(None) ELSE AchievedDeltaV(m, isp, m0, mf)
        dv_achieved == IF IsValueError(dv) THEN Ok(None) ELSE dv
        dv_ok == IF ~IsNone(dv_achieved.v) THEN DeltaVSatisfied(m, isp, m0, mf)
                 ELSE Ok(FALSE)
        tw_ok == IF ~IsNone(thrust) THEN ThrustToWeightSatisfied(m, thrust, m0)
                 ELSE Ok(FALSE)
        bt_ok == IF ~IsNone(burn_time.v) THEN BurnTimeSatisfied(m, burn_time.v)
                 ELSE Ok(FALSE)
    IN  IF ~IsOk(burn_time) THEN burn_time
        ELSE IF ~IsOk(perf) /\ ~IsValueError(perf) THEN perf
        ELSE IF ~IsOk(dv_achieved) THEN dv_achieved
        ELSE IF ~IsOk(dv_ok) THEN dv_ok
        ELSE IF ~IsOk(tw_ok) THEN tw_ok
        ELSE IF ~IsOk(bt_ok) THEN bt_ok
        ELSE Ok([initial_mass |-> m0, final_mass |-> mf,
                 burn_time |-> burn_time.v, thrust |-> thrust, Isp |-> isp,
                 achieved_delta_v |-> dv_achieved.v, delta_v_ok |-> dv_ok.v,
                 thrust_to_weight_ok |-> tw_ok.v, burn_time_ok |-> bt_ok.v,
                 mission_satisfied |-> dv_ok.v /\ tw_ok.v /\ bt_ok.v])

(***************************************************************************)
(* Input domains                                                            *)
(***************************************************************************)
Ints(lo, hi) == {Int2Num(i) : i \in lo..hi}

Etas == {Num(i, EtaDen) : i \in 1..EtaDen}

\* the stage, vehicle and mission variables where a specification has none
NoStage == Stage(None, Int2Num(0), Int2Num(0), Int2Num(0))

NoMission == Mission(Int2Num(0), Int2Num(0), None, Int2Num(0), Int2Num(0))

NoEngine == Propulsion(None, None, Int2Num(1), None, Int2Num(0), None, FALSE)

NoRet == [t |-> "none", e |-> "", msg |-> "", v |-> None]

(***************************************************************************)
(* The engine alone: every method of a Propulsion object, called on every   *)
(* combination of set and unset fields.                                     *)
(***************************************************************************)
PropulsionEngines ==
    {Propulsion(mdot, ve, eta, p_e, p_a, A_e, FALSE) :
        mdot \in {None} \cup Ints(0, MaxMdot),
        ve \in {None} \cup Ints(1, MaxVe),
        eta \in Etas,
        p_e \in {None} \cup Ints(1, MaxPressure),
        p_a \in Ints(0, 1),
        A_e \in {None} \cup Ints(1, 2)}

InitPropulsion ==
    /\ engine \in PropulsionEngines
    /\ stages = <<>> /\ orig = <<>> /\ calls = 0
    /\ stage = NoStage /\ mission = NoMission /\ args = <<>>
    /\ op = "init" /\ ret = NoRet

Call(name, result) ==
    /\ op' = name
    /\ ret' = result

CallMomentumThrust ==
    /\ Call("momentum_thrust", MomentumThrust(engine))
    /\ UNCHANGED <<stages, orig, calls, engine, stage, mission, args>>

CallPressureThrust ==
    /\ Call("pressure_thrust", PressureThrust(engine))
    /\ UNCHANGED <<stages, orig, calls, engine, stage, mission, args>>

CallTotalThrust ==
    /\ Call("total_thrust", TotalThrust(engine))
    /\ UNCHANGED <<stages, orig, calls, engine, stage, mission, args>>

CallSpecificImpulse ==
    /\ Call("specific_impulse", SpecificImpulse(engine))
    /\ UNCHANGED <<stages, orig, calls, engine, stage, mission, args>>

CallEffectiveExhaustVelocity ==
    /\ Call("effective_exhaust_velocity", EffectiveExhaustVelocity(engine))
    /\ UNCHANGED <<stages, orig, calls, engine, stage, mission, args>>

NextPropulsion ==
    \/ CallMomentumThrust
    \/ CallPressureThrust
    \/ CallTotalThrust
    \/ CallSpecificImpulse
    \/ CallEffectiveExhaustVelocity

SpecPropulsion == InitPropulsion /\ [][NextPropulsion]_vars

(***************************************************************************)
(* The vehicle: a LaunchVehicle of 1..MaxStages stages, stacked up to       *)
(* MaxCalls times, its lift-off mass read at any point.                     *)
(***************************************************************************)
\* the engine of the stage at position i: each stage owns its own
VehicleEngine(i) ==
    Propulsion(Int2Num(i), Int2Num(MaxVe), Int2Num(1), None, Int2Num(0), None, FALSE)

VehicleStages(i) ==
    {Stage(VehicleEngine(i), p, d, l) :
        p \in Ints(0, MaxMass), d \in Ints(1, 1), l \in Ints(0, 1)}

RECURSIVE VehiclesOfLen(_)
VehiclesOfLen(n) ==
    IF n = 0 THEN {<<>>}
    ELSE {Append(ss, s) : ss \in VehiclesOfLen(n - 1), s \in VehicleStages(n)}

Vehicles == UNION {VehiclesOfLen(n) : n \in 1..MaxStages}

Init ==
    /\ stages \in Vehicles
    /\ orig = stages
    /\ calls = 0
    /\ engine = NoEngine /\ stage = NoStage /\ mission = NoMission /\ args = <<>>
    /\ op = "init" /\ ret = NoRet

StackStages ==
    /\ calls < MaxCalls
    /\ stages' = StackStagesOf(stages)
    /\ calls' = calls + 1
    /\ Call("stack_stages", Ok(None))
    /\ UNCHANGED <<orig, engine, stage, mission, args>>

CallTotalInitialMass ==
    /\ Call("total_initial_mass", Ok(TotalInitialMass(stages)))
    /\ UNCHANGED <<stages, orig, calls, engine, stage, mission, args>>

Next ==
    \/ StackStages
    \/ CallTotalInitialMass

Spec == Init /\ [][Next]_vars

(***************************************************************************)
(* The mission alone: achieved_delta_v and delta_v_satisfied on every       *)
(* ordering of m0 and mf.                                                   *)
(***************************************************************************)
Margins == {Int2Num(0), Num(1, 2)}

DeltaVMissions ==
    {Mission(dvr, Int2Num(0), None, gl, mg) :
        dvr \in Ints(0, MaxDv), gl \in Ints(0, 1), mg \in Margins}

InitMission ==
    /\ mission \in DeltaVMissions
    /\ args \in [isp : Ints(0, MaxVe), m0 : Ints(0, MaxMass + 1), mf : Ints(0, MaxMass)]
    /\ stages = <<>> /\ orig = <<>> /\ calls = 0
    /\ engine = NoEngine /\ stage = NoStage
    /\ op = "init" /\ ret = NoRet

CallAchievedDeltaV ==
    /\ Call("achieved_delta_v", AchievedDeltaV(mission, args.isp, args.m0, args.mf))
    /\ UNCHANGED <<stages, orig, calls, engine, stage, mission, args>>

CallDeltaVSatisfied ==
    /\ Call("delta_v_satisfied", DeltaVSatisfied(mission, args.isp, args.m0, args.mf))
    /\ UNCHANGED <<stages, orig, calls, engine, stage, mission, args>>

NextMission ==
    \/ CallAchievedDeltaV
    \/ CallDeltaVSatisfied

SpecMission == InitMission /\ [][NextMission]_vars

(***************************************************************************)
(* The stage alone: burn_time, thrust_to_weight and delta_v of a stage with *)
(* or without an engine.                                                    *)
(***************************************************************************)
\* thrust terms: none, (p_e - p_a) A_e > 0, (p_e - p_a) A_e < 0
Nozzles ==
    {[p_e |-> None, p_a |-> Int2Num(0), A_e |-> None],
     [p_e |-> Int2Num(1), p_a |-> Int2Num(0), A_e |-> Int2Num(1)],
     [p_e |-> Int2Num(1), p_a |-> Int2Num(3), A_e |-> Int2Num(1)]}

StageEngines ==
    {None} \cup
    {Propulsion(mdot, ve, Int2Num(1), nz.p_e, nz.p_a, nz.A_e, FALSE) :
        mdot \in {None} \cup Ints(0, MaxMdot),
        ve \in {None} \cup Ints(1, MaxVe),
        nz \in Nozzles}

InitStage ==
    /\ stage \in {Stage(e, p, d, l) :
                     e \in StageEngines, p \in Ints(0, MaxMass),
                     d \in Ints(0, 1), l \in Ints(0, 1)}
    /\ stages = <<>> /\ orig = <<>> /\ calls = 0
    /\ engine = NoEngine /\ mission = NoMission /\ args = <<>>
    /\ op = "init" /\ ret = NoRet

CallBurnTime ==
    /\ Call("burn_time", BurnTime(stage))
    /\ UNCHANGED <<stages, orig, calls, engine, stage, mission, args>>

CallThrustToWeight ==
    /\ Call("thrust_to_weight", ThrustToWeight(stage, G0))
    /\ UNCHANGED <<stages, orig, calls, engine, stage, mission, args>>

CallDeltaV ==
    /\ Call("delta_v", DeltaV(stage))
    /\ UNCHANGED <<stages, orig, calls, engine, stage, mission, args>>

NextStage ==
    \/ CallBurnTime
    \/ CallThrustToWeight
    \/ CallDeltaV

SpecStage == InitStage /\ [][NextStage]_vars

(***************************************************************************)
(* The driver: one stage and its engine evaluated against a mission, and    *)
(* the sweep of a grid of (exit velocity, mass flow rate) cells.            *)
(***************************************************************************)
Missions ==
    {Mission(dvr, tw, bt, Int2Num(0), mg) :
        dvr \in Ints(0, MaxDv), tw \in {Int2Num(0), Num(1, 10)},
        bt \in {None, Int2Num(1)}, mg \in Margins}

TemplateStages(e) ==
    {Stage(e, p, d, l) : p \in Ints(0, MaxMass), d \in Ints(0, 1), l \in Ints(0, 1)}

EvalEngines ==
    {Propulsion(mdot, ve, Int2Num(1), nz.p_e, nz.p_a, nz.A_e, FALSE) :
        mdot \in {None} \cup Ints(-1, MaxMdot),
        ve \in {None} \cup Ints(1, MaxVe),
        nz \in Nozzles}

InitEval ==
    /\ engine \in EvalEngines
    /\ stage \in TemplateStages(engine)
    /\ mission \in {m \in Missions : m.margin = Int2Num(0)}
    /\ stages = <<>> /\ orig = <<>> /\ calls = 0
    /\ args = <<>>
    /\ op = "init" /\ ret = NoRet

CallEvaluateStageMission ==
    /\ Call("evaluate_stage_mission", EvaluateStageMission(engine, stage, mission))
    /\ UNCHANGED <<stages, orig, calls, engine, stage, mission, args>>

NextEval == CallEvaluateStageMission

SpecEval == InitEval /\ [][NextEval]_vars

\* the engine template of the driver: flow rate and exit velocity unset
EngineTemplates ==
    {Propulsion(None, None, eta, nz.p_e, nz.p_a, nz.A_e, FALSE) :
        eta \in {Num(1, 2), Int2Num(1)}, nz \in Nozzles}

\* the numbers lo..hi in order, as np.linspace lays them out
Range(lo, hi) == [i \in 1..(hi - lo + 1) |-> Int2Num(lo + i - 1)]

InitSweep ==
    /\ engine \in EngineTemplates
    /\ stage \in TemplateStages(engine)
    /\ mission \in {m \in Missions : m.margin = Int2Num(0)}
    /\ args \in [ve_range : {Range(1, MaxVe), Range(MaxVe, MaxVe)},
                 mdot_range : {Range(-1, MaxMdot), Range(1, MaxMdot)}]
    /\ stages = <<>> /\ orig = <<>> /\ calls = 0
    /\ op = "init" /\ ret = NoRet

CallVectorizedSweep ==
    /\ Call("vectorized_sweep",
            VectorizedSweep(engine, stage, mission, args.ve_range, args.mdot_range))
    /\ UNCHANGED <<stages, orig, calls, engine, stage, mission, args>>

NextSweep == CallVectorizedSweep

SpecSweep == InitSweep /\ [][NextSweep]_vars

(***************************************************************************)
(* Properties of the vehicle (Spec)                                         *)
(***************************************************************************)
\* C1 (as claimed): after one stack_stages() every stage's payload is its
\* original payload plus the original initial masses of the stages above it,
\* and total_initial_mass() is the sum of the original initial masses.
C1_StackedOnce ==
    calls = 1 =>
        /\ \A i \in 1..Len(stages) :
              stages[i].m_payload = Add(orig[i].m_payload, SumInitialMass(orig, i + 1))
        /\ TotalInitialMass(stages) = SumInitialMass(orig, 1)
        /\ op = "total_initial_mass" => ret.v = SumInitialMass(orig, 1)

\* C2 (as claimed): a second or later stack_stages() leaves every stage's
\* payload, initial mass and final mass as the first call left them.
C2_Idempotent ==
    [][(calls >= 1 /\ calls' = calls + 1) =>
          \A i \in 1..Len(stages) :
              /\ stages'[i].m_payload = stages[i].m_payload
              /\ InitialMass(stages'[i]) = InitialMass(stages[i])
              /\ FinalMass(stages'[i]) = FinalMass(stages[i])]_vars

\* C3: stack_stages() returns normally and changes nothing but the payload of
\* the stages below the top one: the number and order of stages, the top
\* stage, every m_prop, m_dry and engine stay, and a single-stage vehicle is
\* left as it was.
C3_Frame ==
    [][calls' = calls + 1 =>
          /\ ret' = Ok(None)
          /\ Len(stages') = Len(stages)
          /\ stages'[Len(stages)] = stages[Len(stages)]
          /\ \A i \in 1..Len(stages) :
                stages'[i] = [stages[i] EXCEPT !.m_payload = stages'[i].m_payload]
          /\ Len(stages) = 1 => stages' = stages]_vars

\* C3 witness: a stacked vehicle of several stages whose bottom payload grew
C3_Witness ==
    /\ calls >= 1 /\ op = "stack_stages"
    /\ Len(stages) >= 2
    /\ stages[1].m_payload # orig[1].m_payload
    /\ stages[Len(stages)] = orig[Len(stages)]

(***************************************************************************)
(* Properties of the engine (SpecPropulsion)                                *)
(***************************************************************************)
\* the error _require raises
MissingParameter(r) ==
    /\ r.t = "raise" /\ r.e = "ValueError"
    /\ r.msg \in {"Missing required parameter(s): mdot",
                  "Missing required parameter(s): ve",
                  "Missing required parameter(s): mdot, ve"}

\* C5: with the mass flow rate unset, total_thrust(), specific_impulse() and
\* effective_exhaust_velocity() raise the missing-parameter error whatever the
\* other fields are, and pressure_thrust() still returns (p_e - p_a)*A_e when
\* p_e and A_e are set and 0 otherwise.
C5_MissingMdot ==
    IsNone(engine.mdot) =>
        /\ op \in {"total_thrust", "specific_impulse", "effective_exhaust_velocity"}
              => MissingParameter(ret)
        /\ op = "pressure_thrust" =>
              /\ IsOk(ret)
              /\ ret.v = IF ~IsNone(engine.p_e) /\ ~IsNone(engine.A_e)
                         THEN Mul(Sub(engine.p_e, engine.p_a), engine.A_e)
                         ELSE Int2Num(0)

\* C5 witness: specific_impulse() refused on an engine complete but for mdot
C5_Witness ==
    /\ IsNone(engine.mdot) /\ ~IsNone(engine.ve)
    /\ ~IsNone(engine.p_e) /\ ~IsNone(engine.A_e)
    /\ op = "specific_impulse" /\ MissingParameter(ret)

\* the case of C6: mdot and ve set, exit pressure and exit area unset
C6_Case ==
    /\ op = "total_thrust"
    /\ ~IsNone(engine.mdot) /\ ~IsNone(engine.ve)
    /\ IsNone(engine.p_e) /\ IsNone(engine.A_e)

\* C6 (as claimed): with p_e and A_e unset total_thrust() equals
\* momentum_thrust(), for every efficiency.
C6_EqualsMomentum == C6_Case => ret = MomentumThrust(engine)

\* C6 (amended): with p_e and A_e unset total_thrust() is exactly the
\* efficiency times momentum_thrust(): the pressure term adds exactly zero.
\* It equals momentum_thrust() itself only if the efficiency is 1 or the
\* momentum thrust is 0.
C6_EtaTimesMomentum ==
    C6_Case =>
        /\ IsOk(ret)
        /\ ret.v = Mul(engine.eta, MomentumThrust(engine).v)
        /\ ret.v = MomentumThrust(engine).v
              <=> (engine.eta = Int2Num(1) \/ MomentumThrust(engine).v = Int2Num(0))

\* C6 witness: an efficiency below 1 and a thrust below the momentum thrust
C6_Witness ==
    /\ C6_Case /\ IsOk(ret)
    /\ Less(engine.eta, Int2Num(1))
    /\ Less(ret.v, MomentumThrust(engine).v)

(***************************************************************************)
(* Properties of the mission (SpecMission)                                  *)
(***************************************************************************)
\* the error Mission.achieved_delta_v raises
InvalidMass(r) ==
    /\ r.t = "raise" /\ r.e = "ValueError"
    /\ r.msg = "Initial mass must exceed final mass."

\* C4: achieved_delta_v(isp, m0, mf) raises the invalid-mass error whenever
\* m0 <= mf, m0 = mf included, and returns a value only when m0 > mf;
\* delta_v_satisfied raises the same error for m0 <= mf.
C4_InvalidMass ==
    /\ op = "achieved_delta_v" =>
          /\ Leq(args.m0, args.mf) => InvalidMass(ret)
          /\ IsOk(ret) => Less(args.mf, args.m0)
    /\ op = "delta_v_satisfied" =>
          /\ Leq(args.m0, args.mf) => InvalidMass(ret)
          /\ IsOk(ret) => Less(args.mf, args.m0)

\* C4 witness: equal, positive masses refused
C4_Witness ==
    /\ op = "achieved_delta_v"
    /\ args.m0 = args.mf /\ Less(Int2Num(0), args.mf)
    /\ InvalidMass(ret)

(***************************************************************************)
(* Properties of the stage (SpecStage)                                      *)
(***************************************************************************)
\* an invalid-mass error of any wording the code base has
AnyInvalidMass(r) ==
    /\ r.t = "raise" /\ r.e = "ValueError"
    /\ r.msg \in {"Initial mass must exceed final mass.",
                  "Stage initial mass must be positive."}

\* an engine with flow rate and exit velocity set and a positive flow rate
SoundEngine(e) ==
    /\ ~IsNone(e) /\ ~IsNone(e.mdot) /\ ~IsNone(e.ve)
    /\ Less(Int2Num(0), e.mdot)

\* C9 (as claimed): delta_v() raises the missing-engine error without an
\* engine and, on a sound engine, the invalid-mass error whenever the final
\* mass is not below the initial mass or is not positive; it then returns
\* no value and raises no division or math-domain error.
C9_ValidatedRatio ==
    op = "delta_v" =>
        /\ IsNone(stage.engine) => ret = Raise("ValueError", "Stage has no engine.")
        /\ (/\ SoundEngine(stage.engine)
            /\ \/ Leq(InitialMass(stage), FinalMass(stage))
               \/ Leq(FinalMass(stage), Int2Num(0)))
              => AnyInvalidMass(ret)

(***************************************************************************)
(* Properties of the driver (SpecEval, SpecSweep)                           *)
(***************************************************************************)
\* a malformed candidate: an unset required engine field, a flow rate <= 0,
\* or an initial mass not above the final mass
Structural(e, s) ==
    \/ IsNone(e.mdot) \/ IsNone(e.ve)
    \/ Leq(e.mdot, Int2Num(0))
    \/ Leq(InitialMass(s), FinalMass(s))

\* C7 (as claimed): evaluate_stage_mission raises on a malformed candidate,
\* and returns mission_satisfied = False only with every metric computed and
\* some constraint unmet.
C7_ErrorsPropagate ==
    op = "evaluate_stage_mission" =>
        /\ Structural(engine, stage) => ~IsOk(ret)
        /\ (IsOk(ret) /\ ~ret.v.mission_satisfied) =>
              /\ ~IsNone(ret.v.burn_time) /\ ~IsNone(ret.v.thrust)
              /\ ~IsNone(ret.v.Isp) /\ ~IsNone(ret.v.achieved_delta_v)
              /\ ~(ret.v.delta_v_ok /\ ret.v.thrust_to_weight_ok /\ ret.v.burn_time_ok)

\* C8 (as claimed): vectorized_sweep runs to completion, and every cell whose
\* flow rate is <= 0, or whose stage has initial mass <= final mass, holds
\* not-a-number for dv, tw and burn_time and is not feasible.
C8_FailedCellsAreNaN ==
    op = "vectorized_sweep" =>
        /\ IsOk(ret)
        /\ \A c \in DOMAIN ret.v.feasible :
              (\/ Leq(ret.v.mdot[c], Int2Num(0))
               \/ Leq(InitialMass(stage), FinalMass(stage)))
                 => /\ IsNaN(ret.v.dv[c]) /\ IsNaN(ret.v.tw[c])
                    /\ IsNaN(ret.v.burn_time[c])
                    /\ ~ret.v.feasible[c]

\* the cells of the finished sweep r of stage template s that were computed
\* without a structural failure
SoundCells(r, s) ==
    {c \in DOMAIN r.v.feasible :
        /\ Less(Int2Num(0), r.v.mdot[c])
        /\ Less(FinalMass(s), InitialMass(s))}

\* the engine vectorized_sweep builds for cell c from the template e
CellEngine(r, e, c) ==
    Propulsion(r.v.mdot[c], r.v.ve[c], e.eta, e.p_e, e.p_a, e.A_e, TRUE)

\* every soundly computed cell of the finished sweep r is feasible exactly
\* if the Mission predicates hold of its metrics
CellsAgree(r, e, s, m) ==
    \A c \in SoundCells(r, s) :
        r.v.feasible[c] <=>
            /\ Geq(r.v.dv[c], TotalDeltaVRequired(m))
            /\ ThrustToWeightSatisfied(m, TotalThrust(CellEngine(r, e, c)).v,
                                       InitialMass(s)).v
            /\ BurnTimeSatisfied(m, r.v.burn_time[c]).v

====
